---- MODULE Spec2Model ----
(***************************************************************************)
(* A model of utilisation.c: the in-place string reversal strrev, the      *)
(* reversed-token ingestion loop of main, the threshold calculation        *)
(* dCalculatePercentageUsage and the file handling around them.            *)
(*                                                                         *)
(* Characters are their ASCII codes, a C string is the sequence of its     *)
(* characters before the terminating NUL.  A double is modelled by the     *)
(* exact decimal it was parsed from, <<m, e>> standing for m / 10^e with   *)
(* trailing zeros stripped; the result of the calculation is kept as the   *)
(* pair of operands of the code's division, <<iTriggered, iCount>>,        *)
(* standing for 100.0 * (iTriggered / iCount).  IEEE rounding is not       *)
(* modelled.                                                               *)
(***************************************************************************)
EXTENDS Integers, Sequences, FiniteSets, TLC

VARIABLES
    pc,               \* position in main (or the name of the harness)
    inFile,           \* the tokens of the input file, in order
    inPos,            \* number of tokens fscanf has consumed
    pInFile,          \* "NULL", "open" or "closed"
    pOutFile,         \* "NULL", "open" or "closed"
    outFile,          \* the lines of the output file
    sTmp,             \* the token buffer char sTmp[MAX_STRING]
    p1, p2,           \* the pointers of strrev, as positions in sTmp (from 1)
    InputData,        \* the global _InputData: [iCount, fInVibration]
    dTriggerLevel,    \* the threshold
    dPercentageUsage, \* the values returned by dCalculatePercentageUsage, in order
    exitStatus,       \* "none" while running, the value returned by main ("0", "-1"), or "crash"
    hist              \* history kept for stating the properties

vars == <<pc, inFile, inPos, pInFile, pOutFile, outFile, sTmp, p1, p2, InputData,
          dTriggerLevel, dPercentageUsage, exitStatus, hist>>

----------------------------------------------------------------------------
(* Program constants *)

MAX_STRING == 64
MAX_INPUT_VALUES == 255

\* #define DFLT_TRIGGER_LEVEL 10.0
DFLT_TRIGGER_LEVEL == <<10, 0>>

----------------------------------------------------------------------------
(* Bounds of the model *)

\* longest token whose every spelling is enumerated
MaxTokLen == 3
\* number of freely chosen tokens at the head of an input file
MaxHead == 2
\* largest count of a store handed to the calculation harness
MaxCount == 3
\* calls of dCalculatePercentageUsage made by the calculation harness
MaxCalls == 2
\* calls of strrev made by the reversal harness
MaxRevCalls == 2

----------------------------------------------------------------------------
(* Characters and strings *)

Ascii == "0" :> 48 @@ "1" :> 49 @@ "2" :> 50 @@ "5" :> 53 @@ "9" :> 57 @@
         "." :> 46 @@ "-" :> 45 @@ "+" :> 43 @@ "z" :> 122

\* the C string spelled by a tuple of one-character strings
Str(t) == [i \in 1..Len(t) |-> Ascii[t[i]]]

IsDigit(c) == c \in 48..57

RECURSIVE SeqsUpTo(_, _)
SeqsUpTo(S, n) ==
    IF n = 0 THEN {<<>>}
    ELSE LET shorter == SeqsUpTo(S, n - 1)
         IN  shorter \cup {Append(s, c) : s \in shorter, c \in S}

----------------------------------------------------------------------------
(* strrev *)

\* a ^ b on the low n bits
RECURSIVE XorBits(_, _, _)
XorBits(a, b, n) ==
    IF n = 0 THEN 0
    ELSE (((a % 2) + (b % 2)) % 2) + (2 * XorBits(a \div 2, b \div 2, n - 1))

Xor(a, b) == XorBits(a, b, 8)

\* *p1 ^= *p2; *p2 ^= *p1; *p1 ^= *p2;
XorSwap(s, i, j) ==
    LET a == [s EXCEPT ![i] = Xor(s[i], s[j])]
        b == [a EXCEPT ![j] = Xor(a[j], a[i])]
    IN  [b EXCEPT ![i] = Xor(b[i], b[j])]

\* the guard p2 >= p1: the middle character would be swapped with itself
strrevGuardInclusive(a, b) == b >= a

\* for (...; p2 > p1; ...)
strrevGuard(a, b) == b > a

\* if (! str || ! *str) return str;
strrevReturnsAtOnce(str) == Len(str) = 0

\* p1 = str, p2 = str + strlen(str) - 1
strrevEnter ==
    /\ p1' = 1
    /\ p2' = Len(sTmp')

\* one iteration of the loop of strrev: the swap, then ++p1, --p2
strrevIterate ==
    /\ sTmp' = XorSwap(sTmp, p1, p2)
    /\ p1' = p1 + 1
    /\ p2' = p2 - 1

----------------------------------------------------------------------------
(* Decimal values *)

RECURSIVE Pow10(_)
Pow10(n) == IF n = 0 THEN 1 ELSE 10 * Pow10(n - 1)

RECURSIVE Normalize(_, _)
Normalize(m, e) ==
    IF e > 0 /\ m % 10 = 0 THEN Normalize(m \div 10, e - 1) ELSE <<m, e>>

Zero == <<0, 0>>

\* a >= b on doubles
GreaterEq(a, b) == a[1] * Pow10(b[2]) >= b[1] * Pow10(a[2])

----------------------------------------------------------------------------
(* sscanf(s, "%lf", &x) on the characters of Ascii: an optional sign, digits *)
(* with an optional point, at least one digit; the conversion stops at the   *)
(* first character that does not continue the literal.                       *)

\* number of digits of s starting at position i
RECURSIVE DigitRun(_, _)
DigitRun(s, i) ==
    IF i <= Len(s) /\ IsDigit(s[i]) THEN 1 + DigitRun(s, i + 1) ELSE 0

\* the value of the n digits starting at i, continuing from acc
RECURSIVE DigitsValue(_, _, _, _)
DigitsValue(s, i, n, acc) ==
    IF n = 0 THEN acc
    ELSE DigitsValue(s, i + 1, n - 1, (10 * acc) + (s[i] - 48))

\* [conv: conversions made (0 or 1), val: the value stored, used: characters consumed]
sscanf(s) ==
    LET signLen  == IF Len(s) >= 1 /\ s[1] \in {43, 45} THEN 1 ELSE 0
        negative == signLen = 1 /\ s[1] = 45
        intLen   == DigitRun(s, signLen + 1)
        pointAt  == signLen + intLen + 1
        hasPoint == pointAt <= Len(s) /\ s[pointAt] = 46
        fracLen  == IF hasPoint THEN DigitRun(s, pointAt + 1) ELSE 0
        intVal   == DigitsValue(s, signLen + 1, intLen, 0)
        mantissa == DigitsValue(s, pointAt + 1, fracLen, intVal)
        signed   == IF negative THEN 0 - mantissa ELSE mantissa
    IN  IF intLen + fracLen = 0
        THEN [conv |-> 0, val |-> Zero, used |-> 0]
        ELSE [conv |-> 1,
              val  |-> Normalize(signed, fracLen),
              used |-> signLen + intLen + (IF hasPoint THEN 1 + fracLen ELSE 0)]

----------------------------------------------------------------------------
(* The sample store and the calculation *)

\* memset(&_InputData, 0, sizeof(_InputData)); _InputData.iCount = 0;
ClearedData ==
    [iCount |-> 0, fInVibration |-> [i \in 0..(MAX_INPUT_VALUES - 1) |-> Zero]]

\* what a read past the end of fInVibration may find
PastValues == {Zero, DFLT_TRIGGER_LEVEL}

\* the indices in [0, n) that lie past the end of the array
PastIndices(n) == {i \in 0..(n - 1) : i >= MAX_INPUT_VALUES}

\* pInputData->fInVibration[i]; past the end of the array the value is past[i]
ReadVibration(data, i, past) ==
    IF i < MAX_INPUT_VALUES THEN data.fInVibration[i] ELSE past[i]

\* the loop counting only the readings strictly above the trigger level
RECURSIVE CountLoopStrict(_, _, _, _, _)
CountLoopStrict(data, dTrigger, past, lo, hi) ==
    IF hi <= lo THEN 0
    ELSE IF hi = lo + 1
    THEN (IF ~GreaterEq(dTrigger, ReadVibration(data, lo, past)) THEN 1 ELSE 0)
    ELSE LET mid == (lo + hi) \div 2
         IN  CountLoopStrict(data, dTrigger, past, lo, mid)
                 + CountLoopStrict(data, dTrigger, past, mid, hi)

\* for(i = lo; i < hi; i++)
\*   if(pInputData->fInVibration[i] >= dTriggerLevel) iTriggered++;
\* the increments made by the iterations lo .. hi - 1; the iterations do not
\* depend on one another, and are evaluated in halves to keep the evaluation shallow
RECURSIVE CountLoop(_, _, _, _, _)
CountLoop(data, dTrigger, past, lo, hi) ==
    IF hi <= lo THEN 0
    ELSE IF hi = lo + 1
    THEN (IF GreaterEq(ReadVibration(data, lo, past), dTrigger) THEN 1 ELSE 0)
    ELSE LET mid == (lo + hi) \div 2
         IN  CountLoop(data, dTrigger, past, lo, mid)
                 + CountLoop(data, dTrigger, past, mid, hi)

\* dPercentageUsage = 100.0*(((double)iTriggered)/pInputData->iCount++);
\* ret is the pair of operands of the division, data the store after the call
dCalculatePercentageUsage(data, dTrigger, past) ==
    [ret  |-> <<CountLoop(data, dTrigger, past, 0, data.iCount), data.iCount>>,
     data |-> [data EXCEPT !.iCount = @ + 1]]

\* 0.0 / 0 : not a number
IsNaN(r) == r[1] = 0 /\ r[2] = 0

\* the two results are the same double
SameResult(r1, r2) ==
    /\ ~IsNaN(r1) /\ ~IsNaN(r2)
    /\ r1[1] * r2[2] = r2[1] * r1[2]

----------------------------------------------------------------------------
(* Harness for strrev: a token is drawn, strrev is applied to it in place *)

RevChars == {Ascii["0"], Ascii["1"], Ascii["."], Ascii["-"]}

\* a token of n characters, no two neighbours alike
LongRevToken(n) ==
    [i \in 1..n |-> IF i % 3 = 0 THEN Ascii["."] ELSE IF i % 3 = 1 THEN Ascii["1"] ELSE Ascii["0"]]

RevTokens ==
    SeqsUpTo(RevChars, MaxTokLen)
        \cup {LongRevToken(MAX_STRING - 1), LongRevToken(MAX_STRING - 2)}

RevInit ==
    /\ pc = "rev_call"
    /\ sTmp \in RevTokens
    /\ p1 = 0 /\ p2 = 0
    /\ hist = [orig |-> sTmp, calls |-> 0]
    /\ inFile = <<>> /\ inPos = 0
    /\ pInFile = "NULL" /\ pOutFile = "NULL" /\ outFile = <<>>
    /\ InputData = ClearedData
    /\ dTriggerLevel = DFLT_TRIGGER_LEVEL
    /\ dPercentageUsage = <<>>
    /\ exitStatus = "none"

\* strrev(sTmp) is called
RevCall ==
    /\ pc = "rev_call"
    /\ hist.calls < MaxRevCalls
    /\ UNCHANGED sTmp
    /\ IF strrevReturnsAtOnce(sTmp)
       THEN /\ hist' = [hist EXCEPT !.calls = @ + 1]
            /\ UNCHANGED <<pc, p1, p2>>
       ELSE /\ strrevEnter
            /\ pc' = "rev_loop"
            /\ UNCHANGED hist
    /\ UNCHANGED <<inFile, inPos, pInFile, pOutFile, outFile, InputData,
                   dTriggerLevel, dPercentageUsage, exitStatus>>

\* the loop of strrev runs one iteration
RevLoop ==
    /\ pc = "rev_loop"
    /\ strrevGuard(p1, p2)
    /\ strrevIterate
    /\ UNCHANGED <<pc, inFile, inPos, pInFile, pOutFile, outFile, InputData,
                   dTriggerLevel, dPercentageUsage, exitStatus, hist>>

\* the loop of strrev ends and strrev returns
RevReturn ==
    /\ pc = "rev_loop"
    /\ ~strrevGuard(p1, p2)
    /\ pc' = "rev_call"
    /\ hist' = [hist EXCEPT !.calls = @ + 1]
    /\ UNCHANGED <<inFile, inPos, pInFile, pOutFile, outFile, sTmp, p1, p2, InputData,
                   dTriggerLevel, dPercentageUsage, exitStatus>>

RevNext == RevCall \/ RevLoop \/ RevReturn

RevSpec == RevInit /\ [][RevNext]_vars

----------------------------------------------------------------------------
(* Harness for dCalculatePercentageUsage: a store and a trigger level are   *)
(* drawn, the function is called on them, repeatedly                        *)

CalcValues == {Zero, <<99, 1>>, DFLT_TRIGGER_LEVEL, <<15, 0>>}

CalcTriggers == {DFLT_TRIGGER_LEVEL, Zero, <<99, 1>>}

\* the store holding the readings of the sequence r, the rest cleared
StoreOf(r) ==
    [iCount |-> Len(r),
     fInVibration |-> [i \in 0..(MAX_INPUT_VALUES - 1) |->
                          IF i < Len(r) THEN r[i + 1] ELSE Zero]]

\* a store filled to its capacity, its readings alternately at and below DFLT_TRIGGER_LEVEL
FullStore ==
    StoreOf([i \in 1..MAX_INPUT_VALUES |->
                IF i % 2 = 1 THEN DFLT_TRIGGER_LEVEL ELSE <<99, 1>>])

CalcStores == {StoreOf(r) : r \in SeqsUpTo(CalcValues, MaxCount)} \cup {FullStore}

CalcInit ==
    /\ pc = "calculate"
    /\ InputData \in CalcStores
    /\ dTriggerLevel \in CalcTriggers
    /\ dPercentageUsage = <<>>
    /\ hist = [store |-> InputData]
    /\ sTmp = <<>>
    /\ p1 = 0 /\ p2 = 0
    /\ inFile = <<>> /\ inPos = 0
    /\ pInFile = "NULL" /\ pOutFile = "NULL" /\ outFile = <<>>
    /\ exitStatus = "none"

CalcCall ==
    /\ pc = "calculate"
    /\ Len(dPercentageUsage) < MaxCalls
    /\ \E past \in [PastIndices(InputData.iCount) -> PastValues] :
         LET r == dCalculatePercentageUsage(InputData, dTriggerLevel, past)
         IN  /\ dPercentageUsage' = Append(dPercentageUsage, r.ret)
             /\ InputData' = r.data
    /\ UNCHANGED <<pc, inFile, inPos, pInFile, pOutFile, outFile, sTmp, p1, p2,
                   dTriggerLevel, exitStatus, hist>>

CalcNext == CalcCall

CalcSpec == CalcInit /\ [][CalcNext]_vars

----------------------------------------------------------------------------
(* main: the input files *)

\* a token one character too long for sTmp: "z...z51", which reversed begins with 15
LongToken ==
    [i \in 1..MAX_STRING |->
        IF i = MAX_STRING - 1 THEN Ascii["5"]
        ELSE IF i = MAX_STRING THEN Ascii["1"] ELSE Ascii["z"]]

\* the tokens a file may begin with: 10.0, 9.9, "2.5-", "z", "5.2-" and the long token
HeadTokens ==
    {Str(<<"0", ".", "0", "1">>), Str(<<"9", ".", "9">>), Str(<<"-", "5", ".", "2">>),
     Str(<<"z">>), Str(<<"5", ".", "2", "-">>), LongToken}

\* the token that fills the rest of a file: 20.0
PadToken == Str(<<"0", ".", "0", "2">>)

PadLengths == {0, 1, MAX_INPUT_VALUES - 1, MAX_INPUT_VALUES}

InputFiles ==
    {head \o [i \in 1..n |-> PadToken] :
        head \in SeqsUpTo(HeadTokens, MaxHead), n \in PadLengths}

----------------------------------------------------------------------------
(* main *)

Init ==
    /\ pc = "fopen_in"
    /\ inFile \in InputFiles
    /\ inPos = 0
    /\ pInFile = "NULL"
    /\ pOutFile = "NULL"
    /\ outFile = <<>>
    /\ sTmp = <<>>
    /\ p1 = 0 /\ p2 = 0
    /\ InputData = ClearedData
    /\ dTriggerLevel = DFLT_TRIGGER_LEVEL
    /\ dPercentageUsage = <<>>
    /\ exitStatus = "none"
    /\ hist = [sTmpBytes  |-> 0,    \* most bytes one fscanf wrote to sTmp
               pastWrites |-> 0,    \* stores past the end of fInVibration
               converted  |-> 0,    \* tokens sscanf converted
               scan       |-> [conv |-> 0, val |-> Zero, used |-> 0, len |-> 0, slot |-> 0],
               calcCount  |-> -1]   \* iCount on entry to the calculation

\* pInFile = fopen(sInFileName, "r"); if(!pInFile) return -1;
OpenInFail ==
    /\ pc = "fopen_in"
    /\ pc' = "exit"
    /\ exitStatus' = "-1"
    /\ UNCHANGED <<inFile, inPos, pInFile, pOutFile, outFile, sTmp, p1, p2, InputData,
                   dTriggerLevel, dPercentageUsage, hist>>

OpenInOk ==
    /\ pc = "fopen_in"
    /\ pInFile' = "open"
    /\ pc' = "fopen_out"
    /\ UNCHANGED <<inFile, inPos, pOutFile, outFile, sTmp, p1, p2, InputData,
                   dTriggerLevel, dPercentageUsage, exitStatus, hist>>

\* pOutFile = fopen(sOutFileName, "w"); if(!pInFile) { ... return -1; }
\* memset(&_InputData, 0, sizeof(_InputData)); _InputData.iCount = 0;
OpenOut(ok) ==
    /\ pc = "fopen_out"
    /\ pOutFile' = IF ok THEN "open" ELSE "NULL"
    /\ outFile' = IF ok THEN <<>> ELSE outFile
    /\ IF pInFile = "NULL"
       THEN /\ pc' = "exit"
            /\ exitStatus' = "-1"
            /\ UNCHANGED InputData
       ELSE /\ pc' = "read"
            /\ InputData' = ClearedData
            /\ UNCHANGED exitStatus
    /\ UNCHANGED <<inFile, inPos, pInFile, sTmp, p1, p2, dTriggerLevel, dPercentageUsage, hist>>

\* the behaviour of the next step of main is undefined
UndefinedAhead ==
    \/ pc = "read" /\ inPos < Len(inFile) /\ Len(inFile[inPos + 1]) + 1 > MAX_STRING
    \/ /\ pc = "strrev" /\ ~strrevGuard(p1, p2)
       /\ sscanf(sTmp).conv = 1 /\ InputData.iCount >= MAX_INPUT_VALUES
    \/ pc = "calc" /\ InputData.iCount > MAX_INPUT_VALUES
    \/ pc = "write" /\ pOutFile = "NULL"
    \/ pc = "close" /\ pOutFile = "NULL"

\* while( EOF != fscanf(pInFile, "%s", sTmp) ): the next token is copied to sTmp,
\* all of it, and strrev(sTmp) is entered
ReadToken ==
    /\ pc = "read"
    /\ inPos < Len(inFile)
    /\ inPos' = inPos + 1
    /\ sTmp' = inFile[inPos + 1]
    /\ hist' = [hist EXCEPT !.sTmpBytes = IF Len(sTmp') + 1 > @ THEN Len(sTmp') + 1 ELSE @]
    /\ strrevEnter
    /\ pc' = "strrev"
    /\ UNCHANGED <<inFile, pInFile, pOutFile, outFile, InputData, dTriggerLevel,
                   dPercentageUsage, exitStatus>>

\* the loop of strrev runs one iteration
ReverseToken ==
    /\ pc = "strrev"
    /\ strrevGuard(p1, p2)
    /\ strrevIterate
    /\ UNCHANGED <<pc, inFile, inPos, pInFile, pOutFile, outFile, InputData,
                   dTriggerLevel, dPercentageUsage, exitStatus, hist>>

\* strrev returns;
\* sscanf(strrev(sTmp), "%lf", &_InputData.fInVibration[_InputData.iCount++]);
ScanToken ==
    /\ pc = "strrev"
    /\ ~strrevGuard(p1, p2)
    /\ LET sc   == sscanf(sTmp)
           slot == InputData.iCount
       IN  /\ InputData' =
                 [iCount |-> slot + 1,
                  fInVibration |->
                     IF sc.conv = 1 /\ slot < MAX_INPUT_VALUES
                     THEN [InputData.fInVibration EXCEPT ![slot] = sc.val]
                     ELSE InputData.fInVibration]
           /\ hist' = [hist EXCEPT
                 !.pastWrites = IF sc.conv = 1 /\ slot >= MAX_INPUT_VALUES THEN @ + 1 ELSE @,
                 !.converted  = @ + sc.conv,
                 !.scan       = [conv |-> sc.conv, val |-> sc.val, used |-> sc.used,
                                 len |-> Len(sTmp), slot |-> slot]]
    /\ pc' = "read"
    /\ UNCHANGED <<inFile, inPos, pInFile, pOutFile, outFile, sTmp, p1, p2,
                   dTriggerLevel, dPercentageUsage, exitStatus>>

\* fscanf returns EOF
ReadEOF ==
    /\ pc = "read"
    /\ inPos = Len(inFile)
    /\ pc' = "calc"
    /\ UNCHANGED <<inFile, inPos, pInFile, pOutFile, outFile, sTmp, p1, p2, InputData,
                   dTriggerLevel, dPercentageUsage, exitStatus, hist>>

\* dPercentageUsage = dCalculatePercentageUsage(&_InputData, dTriggerLevel);
Calculate ==
    /\ pc = "calc"
    /\ \E past \in [PastIndices(InputData.iCount) -> PastValues] :
         LET r == dCalculatePercentageUsage(InputData, dTriggerLevel, past)
         IN  /\ dPercentageUsage' = <<r.ret>>
             /\ InputData' = r.data
    /\ hist' = [hist EXCEPT !.calcCount = InputData.iCount]
    /\ pc' = "write"
    /\ UNCHANGED <<inFile, inPos, pInFile, pOutFile, outFile, sTmp, p1, p2, dTriggerLevel,
                   exitStatus>>

\* fprintf(pOutFile, "%lf\n", dPercentageUsage); the line is kept as the value printed
WriteResult ==
    /\ pc = "write"
    /\ outFile' = IF pOutFile = "open" THEN Append(outFile, dPercentageUsage[1])
                  ELSE outFile
    /\ pc' = "close"
    /\ UNCHANGED <<inFile, inPos, pInFile, pOutFile, sTmp, p1, p2, InputData, dTriggerLevel,
                   dPercentageUsage, exitStatus, hist>>

\* fclose(pInFile); fclose(pOutFile); return 0;
Close ==
    /\ pc = "close"
    /\ pInFile' = "closed"
    /\ pOutFile' = IF pOutFile = "open" THEN "closed" ELSE pOutFile
    /\ exitStatus' = "0"
    /\ pc' = "exit"
    /\ UNCHANGED <<inFile, inPos, outFile, sTmp, p1, p2, InputData, dTriggerLevel,
                   dPercentageUsage, hist>>

\* an undefined step ends the process instead of carrying on
Crash ==
    /\ UndefinedAhead
    /\ pc' = "exit"
    /\ exitStatus' = "crash"
    /\ hist' = IF pc = "read"
               THEN [hist EXCEPT !.sTmpBytes = Len(inFile[inPos + 1]) + 1]
               ELSE hist
    /\ UNCHANGED <<inFile, inPos, pInFile, pOutFile, outFile, sTmp, p1, p2, InputData,
                   dTriggerLevel, dPercentageUsage>>

Next ==
    \/ OpenInFail
    \/ OpenInOk
    \/ \E ok \in BOOLEAN : OpenOut(ok)
    \/ ReadToken
    \/ ReverseToken
    \/ ScanToken
    \/ ReadEOF
    \/ Calculate
    \/ WriteResult
    \/ Close
    \/ Crash

Spec == Init /\ [][Next]_vars

----------------------------------------------------------------------------
(* Properties of main, checked under Spec *)

\* the positions of main from ingestion on
Ingesting == pc \in {"read", "strrev"}
PastOpening == pc \in {"read", "strrev", "calc", "write", "close"}

\* C1: while tokens are ingested and when the calculation starts, the count of
\* the store is between 0 and the capacity, and no reading has been stored at
\* an index outside [0, capacity): an append to a full store is refused.
C1_CountWithinCapacity ==
    (Ingesting \/ pc = "calc") =>
        /\ 0 <= InputData.iCount
        /\ InputData.iCount <= MAX_INPUT_VALUES
        /\ hist.pastWrites = 0

\* C4: a run whose calculation started on an empty store (count 0) ends in
\* failure: it writes no result line and does not exit with status 0.
C4_EmptyInputIsAnError ==
    hist.calcCount = 0 =>
        /\ outFile = <<>>
        /\ exitStatus # "0"

\* C5: a token that does not convert appends nothing: during ingestion the
\* count of the store is the number of tokens that converted.
C5_CountIsTokensDecoded ==
    Ingesting => InputData.iCount = hist.converted

\* C6: when the input or the output file could not be opened main goes no
\* further: past the two fopen calls both streams are open, and the exit
\* status is 0 only when both files were opened (and, at the end, closed).
C6_OpenFailureIsFatal ==
    /\ PastOpening => (pInFile = "open" /\ pOutFile = "open")
    /\ exitStatus = "0" => (pInFile = "closed" /\ pOutFile = "closed")

\* C8: reading a token never writes more than the MAX_STRING bytes of sTmp
\* (the characters and the terminator), so no token of more than
\* MAX_STRING - 1 characters is taken in.
C8_TokenFitsBuffer ==
    /\ hist.sTmpBytes <= MAX_STRING
    /\ Len(sTmp) <= MAX_STRING - 1

\* C9: a reversed token of which only a leading part is a number is a decode
\* error: the value of that part is not stored as a reading.
C9_WholeTokenMustBeNumeric ==
    ~ /\ pc = "read"
      /\ hist.scan.conv = 1
      /\ hist.scan.used < hist.scan.len
      /\ hist.scan.slot < MAX_INPUT_VALUES
      /\ InputData.fInVibration[hist.scan.slot] = hist.scan.val
      /\ InputData.iCount = hist.scan.slot + 1

----------------------------------------------------------------------------
(* Properties of dCalculatePercentageUsage, checked under CalcSpec *)

\* C2: the calculation is read-only: whatever calls have been made, the count
\* and the readings of the store are what they were before the first call.
C2_CalculationIsReadOnly ==
    InputData = hist.store

\* C3: two calls in a row on a store that is not empty return the same result.
C3_CalculationIsIdempotent ==
    (Len(dPercentageUsage) >= 2 /\ hist.store.iCount >= 1) =>
        SameResult(dPercentageUsage[1], dPercentageUsage[2])

\* the number of readings of the store at indices [0, count) at or above the trigger
TriggeredIn(store, dTrigger) ==
    Cardinality({i \in 0..(store.iCount - 1) :
                    GreaterEq(store.fInVibration[i], dTrigger)})

\* C7: on a store of count >= 1 the first call returns 100 * k / count, with k
\* the number of readings at indices [0, count) that are greater than or equal to
\* the threshold and count the count before the call; the result is in [0, 100].
C7_FirstResultIsPercentage ==
    (Len(dPercentageUsage) >= 1 /\ hist.store.iCount >= 1) =>
        LET r == dPercentageUsage[1]
            n == hist.store.iCount
            k == TriggeredIn(hist.store, dTriggerLevel)
        IN  /\ r[2] > 0
            /\ 100 * r[1] * n = 100 * k * r[2]
            /\ 0 <= 100 * r[1]
            /\ 100 * r[1] <= 100 * r[2]

\* the first call has returned on a store of three readings, of which one equals
\* the threshold, one is above it and one below it
C7_Witness ==
    /\ Len(dPercentageUsage) >= 1
    /\ hist.store.iCount = 3
    /\ \E i, j, l \in 0..2 :
         /\ hist.store.fInVibration[i] = dTriggerLevel
         /\ ~GreaterEq(hist.store.fInVibration[j], dTriggerLevel)
         /\ ~GreaterEq(dTriggerLevel, hist.store.fInVibration[l])
    /\ dPercentageUsage[1] = <<2, 3>>

----------------------------------------------------------------------------
(* Properties of strrev, checked under RevSpec *)

\* the mirror image of the string t
Mirror(t) == [i \in 1..Len(t) |-> t[Len(t) + 1 - i]]

\* C10: when strrev has returned, the buffer holds the mirror image of the
\* token it was called on: same length, character i equal to the token's
\* character n + 1 - i (so the middle character of a token of odd length and the
\* empty token are unchanged); after a second call it holds the token again.
C10_StrrevMirrors ==
    (pc = "rev_call" /\ hist.calls >= 1) =>
        /\ Len(sTmp) = Len(hist.orig)
        /\ (hist.calls % 2 = 1) => sTmp = Mirror(hist.orig)
        /\ (hist.calls % 2 = 0) => sTmp = hist.orig

\* strrev has returned twice on a token of odd length that is not a palindrome
C10_Witness ==
    /\ pc = "rev_call"
    /\ hist.calls = 2
    /\ Len(hist.orig) = 3
    /\ hist.orig[1] # hist.orig[3]
    /\ sTmp = hist.orig

====
